---- MODULE Spec2Model ----
(***************************************************************************)
(* A model of openml-rust (src/src/openml_api.rs): the locked file cache   *)
(* get_cached, task resolution (OpenML::task and the From impls it calls), *)
(* the cross-validation fold index and the measure accumulators.           *)
(*                                                                         *)
(* The specifications share the variables; each leaves the other           *)
(* components' variables at their initial values:                          *)
(*   Spec        concurrent get_cached calls of several processes, one URL *)
(*   SeqSpec     the same calls, one at a time                             *)
(*   TaskSpec    OpenML::task resolving one task document                  *)
(*   FoldSpec    CrossValidation::from consuming split records             *)
(*   AccSpec     Accuracy::update / result                                 *)
(*   RmseSpec    RootMeanSquaredError::update / result                     *)
(*   MeasureSpec one accumulator of either kind                            *)
(*   PerformSpec the evaluation loop of perform over a split plan          *)
(*   UrlSpec     url_to_file applied to two URLs                           *)
(***************************************************************************)
EXTENDS Integers, Sequences, FiniteSets, TLC

\* ------------------------------------------------------------------ bounds
NumProcs == 2
MaxCalls == 3
BodyLen == 2

Procs == 1..NumProcs

\* The response body the network returns for the URL, in BodyLen chunks.
Body == [i \in 1..BodyLen |-> i]

VARIABLES
    \* --- filesystem: the cache/ directory and the URL's cache file
    dir,        \* "ok" | "missing" | "readonly": the cache/ directory
    exists,     \* the cache file exists
    content,    \* the cache file's bytes: a prefix of Body
    shared,     \* processes holding a shared flock on the file
    excl,       \* the process holding the exclusive flock (at most one)
    \* --- per process: get_cached
    pc,         \* where each process is inside get_cached
    calls,      \* get_cached calls each process has started
    \* --- history
    hist,       \* results of the returned calls, in order of return
    fetches,    \* the download() calls made: [proc, call, ok]
    creators,   \* the calls whose create_new succeeded: [proc, call]
    late,       \* the calls started after a call had returned a download error: [proc, call]
    \* --- OpenML::task: an Option<T> is a set of at most one T
    tstep,                  \* where the resolution is: "fetch", "decode", "input", "done"
    doc,                    \* Option: the task document fetched, [defect, task_type_id]
    task_type,              \* Option: the TaskType being built
    input,                  \* the names of the input blocks read so far
    source_data,            \* Option<DataSet>, a DataSet being [target: Option<String>]
    estimation_procedure,   \* Option<Procedure>
    cost_matrix,            \* Option<CostMatrix>
    evaluation_measures,    \* Option<Measure>
    measure_blocks,         \* the measures of the evaluation_measures blocks read so far
    targets,                \* Option: [default, requested] of the source_data block last read
    outcome,                \* "none" | "Ok" | "Err" | "Panic"
    failure,                \* the step that failed, when one did
    task,                   \* Option<Task>: the Task the call returned
    \* --- CrossValidation::from
    folds,      \* Vec<Vec<CrossValidationFold>>
    data,       \* the records of xvs.data consumed so far
    \* --- Accuracy
    n_correct,
    n_wrong,
    n_updates,  \* update calls made
    paired,     \* the (known, predicted) pairs the update calls paired up, as a bag count
    example,    \* the only update so far was update([1,2,3],[1,2,4])
    result,     \* Option<f64>: what result() last returned, as <<numerator, denominator>>
    uneven,     \* the last update call was given slices of different length
    \* --- RootMeanSquaredError
    rmse,           \* the struct: [sum_of_squares, n]
    rmse_updates,   \* update calls made
    rmse_paired,    \* [sum, pairs]: squared differences and number of the pairs paired up
    rmse_example,   \* the only update so far was update([0,0],[3,4])
    rmse_result,    \* Option<f64>: what result() last returned, [nan, milli]
    \* --- Task::perform (Vec indices are 0-based, the cursor 1-based)
    xv,         \* self.estimation_procedure: the folds of the task perform runs on
    pstep,      \* "idle" | "flow" | "update" | "return" | "returned"
    predictions, \* what the flow call of the fold being visited returned
    cursor,     \* Procedure::iter: <<repeat, fold>> of the fold being visited
    measure,    \* Option: the accumulator created by this perform call
    events,     \* what perform did so far, in order
    \* --- url_to_file
    urls,       \* the two URLs given
    files       \* Option per URL: the file name url_to_file returned

cacheVars == <<dir, exists, content, shared, excl, pc, calls, hist, fetches, creators, late>>
taskVars == <<tstep, doc, task_type, input, source_data, estimation_procedure, cost_matrix,
              evaluation_measures, measure_blocks, targets, outcome, failure, task>>
foldVars == <<folds, data>>
accVars == <<n_correct, n_wrong, n_updates, paired, example, result>>
rmseVars == <<rmse, rmse_updates, rmse_paired, rmse_example, rmse_result>>
performVars == <<xv, pstep, cursor, predictions, measure, events>>
urlVars == <<urls, files>>

vars == <<cacheVars, taskVars, foldVars, accVars, uneven, rmseVars, performVars, urlVars>>

\* ------------------------------------------------------------ get_cached
\* Spec: the processes call get_cached(url) for one URL, concurrently.

\* Result<String>: Ok(data) or Err(err); via is the branch that returned.
Ok(p, d, v) == [proc |-> p, call |-> calls[p], ok |-> TRUE, data |-> d, err |-> "", via |-> v]
Err(p, e, v) == [proc |-> p, call |-> calls[p], ok |-> FALSE, data |-> <<>>, err |-> e, via |-> v]

Return(p, r) ==
    /\ pc' = [pc EXCEPT ![p] = "idle"]
    /\ hist' = Append(hist, r)

\* fs::File::open(path): succeeds when the file is there.
FileOpenableNonEmpty == dir # "missing" /\ exists /\ content # <<>>
FileOpenable == dir # "missing" /\ exists

\* OpenOptions::new().create_new(true).write(true).open(path): the io::ErrorKind,
\* or "Ok" when this call created the file.
CreateNewNoExcl == IF dir = "missing" THEN "NotFound"
                   ELSE IF dir = "readonly" THEN "PermissionDenied"
                   ELSE "Ok"
CreateNewKind == IF dir = "missing" THEN "NotFound"
                 ELSE IF exists THEN "AlreadyExists"
                 ELSE IF dir = "readonly" THEN "PermissionDenied"
                 ELSE "Ok"

\* if let std::io::ErrorKind::PermissionDenied = e.kind() { continue }
IsRetryKind(kind) == kind = "PermissionDenied"

\* file.read_to_string(&mut data): the whole file, to its end.
ReadFirstChunk == IF content = <<>> THEN <<>> ELSE <<content[1]>>
ReadToString == content

\* flock(LOCK_SH) returns once no exclusive lock is held by another handle;
\* flock(LOCK_EX) once no lock at all is.
CanLockShared(p) == excl = {}
CanLockExclusive(p) == excl = {} /\ shared = {}

\* Drop for SharedLock / ExclusiveLock: file.unlock()
NoUnlockShared(p) == shared' = shared
UnlockShared(p) == shared' = shared \ {p}
UnlockExclusive(p) == excl' = excl \ {p}

\* get_cached calls started so far, over all processes
RECURSIVE SumCalls(_)
SumCalls(S) == IF S = {} THEN 0
               ELSE LET p == CHOOSE q \in S : TRUE IN calls[p] + SumCalls(S \ {p})
TotalCalls == SumCalls(Procs)

\* a caller enters get_cached(url)
Call(p) ==
    /\ pc[p] = "idle"
    /\ TotalCalls < MaxCalls
    /\ pc' = [pc EXCEPT ![p] = "open"]
    /\ calls' = [calls EXCEPT ![p] = @ + 1]
    /\ late' = IF \E i \in 1..Len(hist) : hist[i].err = "Hyper"
               THEN late \cup {[proc |-> p, call |-> calls[p] + 1]}
               ELSE late
    /\ UNCHANGED <<dir, exists, content, shared, excl, hist, fetches, creators, taskVars, foldVars, accVars, uneven, rmseVars, performVars, urlVars>>

\* match fs::File::open(path) { Ok(f) => ..., Err(e) => {} }
Open(p) ==
    /\ pc[p] = "open"
    /\ pc' = [pc EXCEPT ![p] = IF FileOpenable THEN "lock_shared" ELSE "create"]
    /\ UNCHANGED <<dir, late, exists, content, shared, excl, calls, hist, fetches, creators, taskVars, foldVars, accVars, uneven, rmseVars, performVars, urlVars>>

\* SharedLock::new(f)?  -- blocks in lock_shared()
LockShared(p) ==
    /\ pc[p] = "lock_shared"
    /\ CanLockShared(p)
    /\ shared' = shared \cup {p}
    /\ pc' = [pc EXCEPT ![p] = "read"]
    /\ UNCHANGED <<dir, late, exists, content, excl, calls, hist, fetches, creators, taskVars, foldVars, accVars, uneven, rmseVars, performVars, urlVars>>

\* SharedLock::new(f)?  -- lock_shared() itself fails
LockSharedErr(p) ==
    /\ pc[p] = "lock_shared"
    /\ Return(p, Err(p, "Io", "read"))
    /\ UNCHANGED <<dir, late, exists, content, shared, excl, calls, fetches, creators, taskVars, foldVars, accVars, uneven, rmseVars, performVars, urlVars>>

\* file.read_to_string(&mut data)?; return Ok(data)  -- the lock drops on return
Read(p) ==
    /\ pc[p] = "read"
    /\ \E okr \in BOOLEAN :
         Return(p, IF okr THEN Ok(p, ReadToString, "read") ELSE Err(p, "Io", "read"))
    /\ UnlockShared(p)
    /\ UNCHANGED <<dir, late, exists, content, excl, calls, fetches, creators, taskVars, foldVars, accVars, uneven, rmseVars, performVars, urlVars>>

\* match OpenOptions::new().create_new(true).write(true).open(path)
Create(p) ==
    /\ pc[p] = "create"
    /\ LET kind == CreateNewKind IN
       IF kind = "Ok"
       THEN /\ exists' = TRUE
            /\ content' = <<>>
            /\ creators' = creators \cup {[proc |-> p, call |-> calls[p]]}
            /\ pc' = [pc EXCEPT ![p] = "lock_excl"]
            /\ UNCHANGED hist
       ELSE IF IsRetryKind(kind)
       THEN /\ pc' = [pc EXCEPT ![p] = "open"]
            /\ UNCHANGED <<exists, content, creators, hist>>
       ELSE /\ Return(p, Err(p, kind, "write"))
            /\ UNCHANGED <<exists, content, creators>>
    /\ UNCHANGED <<dir, late, shared, excl, calls, fetches, taskVars, foldVars, accVars, uneven, rmseVars, performVars, urlVars>>

\* ExclusiveLock::new(f)?  -- blocks in lock_exclusive()
LockExclusive(p) ==
    /\ pc[p] = "lock_excl"
    /\ CanLockExclusive(p)
    /\ excl' = {p}
    /\ pc' = [pc EXCEPT ![p] = "download"]
    /\ UNCHANGED <<dir, late, exists, content, shared, calls, hist, fetches, creators, taskVars, foldVars, accVars, uneven, rmseVars, performVars, urlVars>>

\* ExclusiveLock::new(f)?  -- lock_exclusive() itself fails
LockExclusiveErr(p) ==
    /\ pc[p] = "lock_excl"
    /\ Return(p, Err(p, "Io", "write"))
    /\ UNCHANGED <<dir, late, exists, content, shared, excl, calls, fetches, creators, taskVars, foldVars, accVars, uneven, rmseVars, performVars, urlVars>>

\* let data = download(url)?
Download(p) ==
    /\ pc[p] = "download"
    /\ \E okd \in BOOLEAN :
         /\ fetches' = fetches \cup {[proc |-> p, call |-> calls[p], ok |-> okd]}
         /\ IF okd
            THEN /\ pc' = [pc EXCEPT ![p] = "write"]
                 /\ UNCHANGED <<hist, excl>>
            ELSE /\ Return(p, Err(p, "Hyper", "write"))
                 /\ UnlockExclusive(p)
    /\ UNCHANGED <<dir, late, exists, content, shared, calls, creators, taskVars, foldVars, accVars, uneven, rmseVars, performVars, urlVars>>

\* file.write_all(data.as_bytes())?; return Ok(data)  -- the lock drops on return
Write(p) ==
    /\ pc[p] = "write"
    /\ \E n \in 0..Len(Body) :
         /\ content' = SubSeq(Body, 1, n)
         /\ Return(p, IF n = Len(Body) THEN Ok(p, Body, "write") ELSE Err(p, "Io", "write"))
    /\ UnlockExclusive(p)
    /\ UNCHANGED <<dir, late, exists, shared, calls, fetches, creators, taskVars, foldVars, accVars, uneven, rmseVars, performVars, urlVars>>

CacheInit ==
    /\ dir \in {"ok", "missing", "readonly"}
    /\ exists = FALSE
    /\ content = <<>>
    /\ shared = {}
    /\ excl = {}
    /\ pc = [p \in Procs |-> "idle"]
    /\ calls = [p \in Procs |-> 0]
    /\ hist = <<>>
    /\ fetches = {}
    /\ creators = {}
    /\ late = {}

Step(p) ==
    \/ Open(p)
    \/ LockShared(p)
    \/ LockSharedErr(p)
    \/ Read(p)
    \/ Create(p)
    \/ LockExclusive(p)
    \/ LockExclusiveErr(p)
    \/ Download(p)
    \/ Write(p)

TaskInit ==
    /\ tstep = "fetch"
    /\ doc = {}
    /\ task_type = {}
    /\ input = <<>>
    /\ source_data = {}
    /\ estimation_procedure = {}
    /\ cost_matrix = {}
    /\ evaluation_measures = {}
    /\ measure_blocks = <<>>
    /\ targets = {}
    /\ outcome = "none"
    /\ failure = ""
    /\ task = {}

FoldInit ==
    /\ folds = <<>>
    /\ data = <<>>

AccInit ==
    /\ n_correct = 0
    /\ n_wrong = 0
    /\ n_updates = 0
    /\ paired = [correct |-> 0, wrong |-> 0]
    /\ example = FALSE
    /\ result = {}
    /\ uneven = FALSE

RmseInit ==
    /\ rmse = [sum_of_squares |-> 0, n |-> 0]
    /\ rmse_updates = 0
    /\ rmse_paired = [sum |-> 0, pairs |-> 0]
    /\ rmse_example = FALSE
    /\ rmse_result = {}

PerformInit ==
    /\ xv = <<>>
    /\ pstep = "idle"
    /\ cursor = <<1, 1>>
    /\ predictions = <<>>
    /\ measure = {}
    /\ events = <<>>

UrlInit ==
    /\ urls = <<>>
    /\ files = <<>>

Init == CacheInit /\ TaskInit /\ FoldInit /\ AccInit /\ RmseInit /\ PerformInit /\ UrlInit

Next == \E p \in Procs : Call(p) \/ Step(p)

Spec == Init /\ [][Next]_vars

\* One call at a time: a call starts only when no other call is in progress.
SeqCall(p) ==
    /\ \A q \in Procs : pc[q] = "idle"
    /\ Call(p)

SeqNext == \E p \in Procs : SeqCall(p) \/ Step(p)

SeqSpec == Init /\ [][SeqNext]_vars

\* the specifications of the other components start with cache/ in place
QuietInit == Init /\ dir = "ok"

\* ----------------------------------------------------------- OpenML::task
MaxInput == 4

\* task_type_id as the document gives it: a string, or absent
TypeIds == {{"1"}, {"2"}, {"99"}, {}}

\* What is wrong with the task document, in the order OpenML::task meets it.
DocDefects == {"none", "malformed json", "no /task", "no task_id", "no task_name",
               "no input array"}

\* Names of the input blocks; {} is a block whose name is not a string.
BlockNames == {{"source_data"}, {"estimation_procedure"}, {"cost_matrix"},
               {"evaluation_measures"}, {"other"}, {}}

\* /evaluation_measures/evaluation_measure of a block: a string, the empty
\* array "[]", or {} when the block has no such member.
MeasureValues == {{"predictive_accuracy"}, {"root_mean_squared_error"}, {"[]"},
                  {"area_under_roc_curve"}, {}}

\* What fails first inside DataSet::from, in the order of its unwraps.
DataSetFaults == {"none", "no data_set_id", "dataset metadata fetch",
                  "dataset metadata json", "no dataset url", "dataset file fetch",
                  "dataset file arff"}

\* What fails first inside Procedure::from.
ProcedureFaults == {"none", "no data_splits_url", "split file fetch", "split file arff"}

\* v["cost_matrix"]: not an array, the empty array, a non-empty array
CostMatrixValues == {"not an array", "empty", "non-empty"}

DefaultTargets == {{}, {"class"}}
RequestedTargets == {{}, {"label"}}

\* the call ends without a Task: Err(e) returned, or a panic
Fail(how, why) ==
    /\ outcome' = how
    /\ failure' = why
    /\ tstep' = "done"
    /\ task' = {}

\* let raw_task = get_cached(&url)?
TaskFetch ==
    /\ tstep = "fetch"
    /\ \E okf \in BOOLEAN :
         IF okf
         THEN /\ tstep' = "decode"
              /\ UNCHANGED <<outcome, failure, task>>
         ELSE Fail("Err", "task document fetch")
    /\ UNCHANGED <<doc, task_type, input, source_data, estimation_procedure, cost_matrix,
                   evaluation_measures, measure_blocks, targets>>
    /\ UNCHANGED <<cacheVars, foldVars, accVars, uneven, rmseVars, performVars, urlVars>>

\* match task_json["task_type_id"].as_str(): the TaskType built, {} for the panic arm
TaskTypeDefaultKind(type_id) ==
    IF type_id = {"2"} THEN {"SupervisedRegression"} ELSE {"SupervisedClassification"}
TaskTypeKind(type_id) ==
    IF type_id = {"1"} THEN {"SupervisedClassification"}
    ELSE IF type_id = {"2"} THEN {"SupervisedRegression"}
    ELSE {}

\* serde_json::from_str(&raw_task)?; look_up("/task").unwrap(); the Task literal up
\* to OpenML::task_type and the locals of the TaskType's new()
TaskDecode ==
    /\ tstep = "decode"
    /\ \E defect \in DocDefects, type_id \in TypeIds :
         /\ doc' = {[defect |-> defect, task_type_id |-> type_id]}
         /\ IF defect = "malformed json"
            THEN Fail("Err", defect) /\ UNCHANGED <<task_type, evaluation_measures>>
            ELSE IF defect # "none"
            THEN Fail("Panic", defect) /\ UNCHANGED <<task_type, evaluation_measures>>
            ELSE IF TaskTypeKind(type_id) = {}
            THEN Fail("Panic", "unsupported task type") /\ UNCHANGED <<task_type, evaluation_measures>>
            ELSE /\ task_type' = TaskTypeKind(type_id)
                 /\ evaluation_measures' =
                        IF task_type' = {"SupervisedClassification"}
                        THEN {"PredictiveAccuracy"} ELSE {}
                 /\ tstep' = "input"
                 /\ UNCHANGED <<outcome, failure, task>>
    /\ UNCHANGED <<input, source_data, estimation_procedure, cost_matrix,
                   measure_blocks, targets>>
    /\ UNCHANGED <<cacheVars, foldVars, accVars, uneven, rmseVars, performVars, urlVars>>

\* the loop of new() reads one more block of the input array
ReadBlock(name) ==
    /\ tstep = "input"
    /\ Len(input) < MaxInput
    /\ input' = Append(input, name)

\* match (default_target, target) in DataSet::from
ResolveTargetDefaultFirst(default_target, target) ==
    IF default_target # {} THEN default_target ELSE target
ResolveTarget(default_target, target) ==
    IF (default_target # {} /\ target = {}) THEN default_target
    ELSE IF target # {} THEN target
    ELSE {}

\* Some("source_data") => source_data = Some(input_item.into())  -- DataSet::from
InputSourceData ==
    /\ ReadBlock("source_data")
    /\ \E fault \in DataSetFaults, default_target \in DefaultTargets,
          target \in RequestedTargets :
         IF fault = "none"
         THEN /\ source_data' = {[target |-> ResolveTarget(default_target, target)]}
              /\ targets' = {[default |-> default_target, requested |-> target]}
              /\ UNCHANGED <<tstep, outcome, failure, task>>
         ELSE /\ Fail("Panic", fault)
              /\ UNCHANGED <<source_data, targets>>
    /\ UNCHANGED <<doc, task_type, estimation_procedure, cost_matrix,
                   evaluation_measures, measure_blocks>>
    /\ UNCHANGED <<cacheVars, foldVars, accVars, uneven, rmseVars, performVars, urlVars>>

\* Some("estimation_procedure") => estimation_procedure = Some(input_item.into())
\* -- Procedure::from and CrossValSplits::load
InputEstimationProcedure ==
    /\ ReadBlock("estimation_procedure")
    /\ \E fault \in ProcedureFaults :
         IF fault = "none"
         THEN /\ estimation_procedure' = {"Frozen"}
              /\ UNCHANGED <<tstep, outcome, failure, task>>
         ELSE /\ Fail("Panic", fault)
              /\ UNCHANGED estimation_procedure
    /\ UNCHANGED <<doc, task_type, source_data, cost_matrix, evaluation_measures,
                   measure_blocks, targets>>
    /\ UNCHANGED <<cacheVars, foldVars, accVars, uneven, rmseVars, performVars, urlVars>>

\* Some("cost_matrix") => cost_matrix = Some(input_item.into())  -- CostMatrix::from;
\* SupervisedRegression::new has no such arm: the block falls to Some(_) => {}
InputCostMatrix ==
    /\ ReadBlock("cost_matrix")
    /\ \E v \in CostMatrixValues :
         IF task_type = {"SupervisedRegression"} \/ v = "empty"
         THEN /\ cost_matrix' = IF task_type = {"SupervisedRegression"}
                                THEN cost_matrix ELSE {"None"}
              /\ UNCHANGED <<tstep, outcome, failure, task>>
         ELSE /\ Fail("Panic", IF v = "not an array" THEN "invalid cost matrix"
                                                     ELSE "cost matrix unimplemented")
              /\ UNCHANGED cost_matrix
    /\ UNCHANGED <<doc, task_type, source_data, estimation_procedure,
                   evaluation_measures, measure_blocks, targets>>
    /\ UNCHANGED <<cacheVars, foldVars, accVars, uneven, rmseVars, performVars, urlVars>>

\* Measure::new(item): Some(measure), or None for the empty array
MeasureNewSwapped(v) ==
    IF v = {"predictive_accuracy"} THEN {"RootMeanSquaredError"}
    ELSE IF v = {"root_mean_squared_error"} THEN {"PredictiveAccuracy"}
    ELSE {}
MeasureNew(v) ==
    IF v = {"predictive_accuracy"} THEN {"PredictiveAccuracy"}
    ELSE IF v = {"root_mean_squared_error"} THEN {"RootMeanSquaredError"}
    ELSE {}

\* Measure::new panics: the pointer's unwrap(), or the match's last arm
MeasureNewPanics(v) ==
    v \notin {{"predictive_accuracy"}, {"root_mean_squared_error"}, {"[]"}}

\* Some("evaluation_measures") => evaluation_measures = Measure::new(input_item)
\* and, for SupervisedClassification, .unwrap_or(evaluation_measures)
InputEvaluationMeasures ==
    /\ ReadBlock("evaluation_measures")
    /\ \E v \in MeasureValues :
         /\ measure_blocks' = Append(measure_blocks, v)
         /\ IF MeasureNewPanics(v)
            THEN /\ Fail("Panic", IF v = {} THEN "no evaluation_measure"
                                            ELSE "invalid evaluation measure")
                 /\ UNCHANGED evaluation_measures
            ELSE /\ evaluation_measures' =
                        IF task_type = {"SupervisedClassification"} /\ MeasureNew(v) = {}
                        THEN evaluation_measures ELSE MeasureNew(v)
                 /\ UNCHANGED <<tstep, outcome, failure, task>>
    /\ UNCHANGED <<doc, task_type, source_data, estimation_procedure, cost_matrix, targets>>
    /\ UNCHANGED <<cacheVars, foldVars, accVars, uneven, rmseVars, performVars, urlVars>>

\* Some(_) => {}
InputOther ==
    /\ ReadBlock("other")
    /\ UNCHANGED <<tstep, doc, task_type, source_data, estimation_procedure, cost_matrix,
                   evaluation_measures, measure_blocks, targets, outcome, failure, task>>
    /\ UNCHANGED <<cacheVars, foldVars, accVars, uneven, rmseVars, performVars, urlVars>>

\* None => panic!("/task/input/name is not a string")
InputNoName ==
    /\ ReadBlock("(not a string)")
    /\ Fail("Panic", "input name is not a string")
    /\ UNCHANGED <<doc, task_type, source_data, estimation_procedure, cost_matrix,
                   evaluation_measures, measure_blocks, targets>>
    /\ UNCHANGED <<cacheVars, foldVars, accVars, uneven, rmseVars, performVars, urlVars>>

\* the first local whose unwrap() panics when the TaskType is put together
MissingLocalButMeasure ==
    IF source_data = {} THEN "no source_data"
    ELSE IF estimation_procedure = {} THEN "no estimation_procedure"
    ELSE IF task_type = {"SupervisedClassification"} /\ cost_matrix = {} THEN "no cost_matrix"
    ELSE "none"
MissingLocal ==
    IF source_data = {} THEN "no source_data"
    ELSE IF estimation_procedure = {} THEN "no estimation_procedure"
    ELSE IF task_type = {"SupervisedClassification"} /\ cost_matrix = {} THEN "no cost_matrix"
    ELSE IF task_type = {"SupervisedRegression"} /\ evaluation_measures = {}
         THEN "no evaluation_measures"
    ELSE "none"

\* the loop is over: the TaskType literal of new(), then Ok(Task { .. })
TaskBuild ==
    /\ tstep = "input"
    /\ IF MissingLocal # "none"
       THEN Fail("Panic", MissingLocal)
       ELSE /\ outcome' = "Ok"
            /\ tstep' = "done"
            /\ task' = {[task_type |-> task_type, source_data |-> source_data,
                         estimation_procedure |-> estimation_procedure,
                         evaluation_measures |-> evaluation_measures]}
            /\ UNCHANGED failure
    /\ UNCHANGED <<doc, task_type, input, source_data, estimation_procedure, cost_matrix,
                   evaluation_measures, measure_blocks, targets>>
    /\ UNCHANGED <<cacheVars, foldVars, accVars, uneven, rmseVars, performVars, urlVars>>

TaskNext ==
    \/ TaskFetch
    \/ TaskDecode
    \/ InputSourceData
    \/ InputEstimationProcedure
    \/ InputCostMatrix
    \/ InputEvaluationMeasures
    \/ InputOther
    \/ InputNoName
    \/ TaskBuild

TaskSpec == QuietInit /\ [][TaskNext]_vars

\* ------------------------------------------------- CrossValidation::from
MaxItems == 3
\* rows of the dataset the split plan belongs to
NumRows == 2

\* CrossValItem: what the split file may hold (row ids 0..2: one beyond the
\* dataset's rows; Vec indices are 0-based, sequences 1-based)
CrossValItems == [purpose : {"TRAIN", "TEST"}, rowid : {0, 1, 2},
                  repeat : {0, 1}, fold : {0, 1}]

\* CrossValidationFold::new()
NewFold == [trainset |-> <<>>, testset |-> <<>>]

\* Vec::resize(n, v), called only to grow
Resize(vec, n, v) == vec \o [i \in 1..(n - Len(vec)) |-> v]

\* &mut rep[item.fold]
FoldIndexFirst(item) == 1
FoldIndex(item) == item.fold + 1

\* match item.purpose { Train => fold.trainset.push(..), Test => fold.testset.push(..) }
PushRowFront(fold, item) ==
    IF item.purpose = "TRAIN"
    THEN [fold EXCEPT !.trainset = <<item.rowid>> \o @]
    ELSE [fold EXCEPT !.testset = <<item.rowid>> \o @]
PushRow(fold, item) ==
    IF item.purpose = "TRAIN"
    THEN [fold EXCEPT !.trainset = Append(@, item.rowid)]
    ELSE [fold EXCEPT !.testset = Append(@, item.rowid)]

\* one turn of `for item in xvs.data`
FoldPush ==
    /\ Len(data) < MaxItems
    /\ \E item \in CrossValItems :
         LET grown == IF item.repeat >= Len(folds)
                      THEN Resize(folds, item.repeat + 1, <<>>) ELSE folds
             rep == grown[item.repeat + 1]
             rep1 == IF item.fold >= Len(rep)
                     THEN Resize(rep, item.fold + 1, NewFold) ELSE rep
             fold == rep1[FoldIndex(item)]
         IN /\ folds' = [grown EXCEPT ![item.repeat + 1] =
                                [rep1 EXCEPT ![FoldIndex(item)] = PushRow(fold, item)]]
            /\ data' = Append(data, item)
    /\ UNCHANGED <<cacheVars, taskVars, accVars, uneven, rmseVars, performVars, urlVars>>

FoldNext == FoldPush

FoldSpec == QuietInit /\ [][FoldNext]_vars

\* ----------------------------------------------------------------- Accuracy
MaxLen == 3
MaxUpdates == 3

\* the label values of the known and of the predicted sequences
KnownValues == {1, 2, 3}
PredictedValues == {1, 2, 4}

SeqsUpTo(S, n) == UNION {[1..k -> S] : k \in 0..n}

Min(a, b) == IF a <= b THEN a ELSE b

\* for (k, p) in known.iter().zip(predicted.iter()) { .. }
RECURSIVE AccuracyLoopLessEq(_, _, _)
AccuracyLoopLessEq(acc, known, predicted) ==
    IF known = <<>> \/ predicted = <<>> THEN acc
    ELSE AccuracyLoopLessEq(
            IF Head(known) <= Head(predicted)
            THEN [acc EXCEPT !.n_correct = @ + 1]
            ELSE [acc EXCEPT !.n_wrong = @ + 1],
            Tail(known), Tail(predicted))
\* a loop that runs to the end of the longer slice
RECURSIVE AccuracyLoopLongest(_, _, _)
AccuracyLoopLongest(acc, known, predicted) ==
    IF known = <<>> /\ predicted = <<>> THEN acc
    ELSE IF known = <<>> \/ predicted = <<>>
    THEN AccuracyLoopLongest([acc EXCEPT !.n_wrong = @ + 1],
                             IF known = <<>> THEN <<>> ELSE Tail(known),
                             IF predicted = <<>> THEN <<>> ELSE Tail(predicted))
    ELSE AccuracyLoopLongest(
            IF Head(known) = Head(predicted)
            THEN [acc EXCEPT !.n_correct = @ + 1]
            ELSE [acc EXCEPT !.n_wrong = @ + 1],
            Tail(known), Tail(predicted))
RECURSIVE AccuracyLoop(_, _, _)
AccuracyLoop(acc, known, predicted) ==
    IF known = <<>> \/ predicted = <<>> THEN acc
    ELSE AccuracyLoop(
            IF Head(known) = Head(predicted)
            THEN [acc EXCEPT !.n_correct = @ + 1]
            ELSE [acc EXCEPT !.n_wrong = @ + 1],
            Tail(known), Tail(predicted))

\* the positions at which both sequences have a value
PairedIx(known, predicted) == 1..Min(Len(known), Len(predicted))

\* Accuracy::update(&mut self, known, predicted)
AccuracyUpdate ==
    /\ n_updates < MaxUpdates
    /\ \E known \in SeqsUpTo(KnownValues, MaxLen),
          predicted \in SeqsUpTo(PredictedValues, MaxLen) :
         LET acc == AccuracyLoop([n_correct |-> n_correct, n_wrong |-> n_wrong],
                                 known, predicted)
             ix == PairedIx(known, predicted)
         IN /\ n_correct' = acc.n_correct
            /\ n_wrong' = acc.n_wrong
            /\ paired' =
                 [correct |-> paired.correct
                                + Cardinality({i \in ix : known[i] = predicted[i]}),
                  wrong |-> paired.wrong
                                + Cardinality({i \in ix : known[i] # predicted[i]})]
            /\ example' = (n_updates = 0 /\ known = <<1, 2, 3>> /\ predicted = <<1, 2, 4>>)
            /\ uneven' = (Len(known) # Len(predicted))
    /\ n_updates' = n_updates + 1
    /\ result' = {}
    /\ UNCHANGED <<cacheVars, taskVars, foldVars, rmseVars, performVars, urlVars>>

\* Accuracy::result(&self): the quotient as <<numerator, denominator>>
\* (<<0, 0>> is the NaN of 0.0 / 0.0)
AccuracyResult ==
    /\ result' = {<<n_correct, n_correct + n_wrong>>}
    /\ UNCHANGED <<n_correct, n_wrong, n_updates, paired, example, uneven>>
    /\ UNCHANGED <<cacheVars, taskVars, foldVars, rmseVars, performVars, urlVars>>

AccNext == AccuracyUpdate \/ AccuracyResult

AccSpec == QuietInit /\ [][AccNext]_vars


\* ------------------------------------------------- RootMeanSquaredError

RmseKnownValues == {0, 1}
RmsePredictedValues == {3, 4}

\* the loop body with the difference left unsquared
RECURSIVE RmseLoopNoSquare(_, _, _)
RmseLoopNoSquare(acc, known, predicted) ==
    IF known = <<>> \/ predicted = <<>>
    THEN acc
    ELSE LET diff == Head(known) - Head(predicted)
         IN  RmseLoopNoSquare([sum_of_squares |-> acc.sum_of_squares + diff, n |-> acc.n + 1],
                              Tail(known), Tail(predicted))

\* for (k, p) in known.iter().zip(predicted.iter()) { diff = k - p; n += 1;
\* sum_of_squares += diff * diff }
RECURSIVE RmseLoop(_, _, _)
RmseLoop(acc, known, predicted) ==
    IF known = <<>> \/ predicted = <<>>
    THEN acc
    ELSE LET diff == Head(known) - Head(predicted)
         IN  RmseLoop([sum_of_squares |-> acc.sum_of_squares + diff * diff, n |-> acc.n + 1],
                      Tail(known), Tail(predicted))

\* the squared differences of the index-aligned pairs, summed by index
RECURSIVE SumSquares(_, _, _)
SumSquares(known, predicted, k) ==
    IF k = 0 THEN 0
    ELSE (known[k] - predicted[k]) * (known[k] - predicted[k]) + SumSquares(known, predicted, k - 1)

\* RootMeanSquaredError::update
RmseUpdate ==
    /\ rmse_updates < MaxUpdates
    /\ \E known \in SeqsUpTo(RmseKnownValues, MaxLen), predicted \in SeqsUpTo(RmsePredictedValues, MaxLen) :
            /\ rmse' = RmseLoop(rmse, known, predicted)
            /\ rmse_paired' =
                   LET k == Min(Len(known), Len(predicted))
                   IN  [sum |-> rmse_paired.sum + SumSquares(known, predicted, k),
                        pairs |-> rmse_paired.pairs + k]
            /\ rmse_example' = (rmse_updates = 0 /\ known = <<0, 0>> /\ predicted = <<3, 4>>)
            /\ uneven' = (Len(known) # Len(predicted))
    /\ rmse_updates' = rmse_updates + 1
    /\ rmse_result' = {}
    /\ UNCHANGED <<cacheVars, taskVars, foldVars, accVars, performVars, urlVars>>

\* f64::sqrt in thousandths, rounded down: Heron's iteration from above
RECURSIVE SqrtFrom(_, _)
SqrtFrom(x, r) ==
    LET next == (r + x \div r) \div 2
    IN  IF next >= r THEN r ELSE SqrtFrom(x, next)

SqrtMilli(num, den) ==
    LET x == (num * 1000000) \div den
    IN  IF x = 0 THEN 0 ELSE SqrtFrom(x, x)

\* RootMeanSquaredError::result: (sum_of_squares / n as f64).sqrt(); 0.0 / 0.0 is NaN
RmseResult ==
    /\ rmse_result = {}
    /\ rmse_result' = {IF rmse.n = 0
                       THEN [nan |-> TRUE, milli |-> 0]
                       ELSE [nan |-> FALSE, milli |-> SqrtMilli(rmse.sum_of_squares, rmse.n)]}
    /\ UNCHANGED <<rmse, rmse_updates, rmse_paired, rmse_example, uneven>>
    /\ UNCHANGED <<cacheVars, taskVars, foldVars, accVars, performVars, urlVars>>

RmseNext == RmseUpdate \/ RmseResult

RmseSpec == QuietInit /\ [][RmseNext]_vars

\* ---------------------------------------------------------- Task::perform

MaxRepeats == 2
MaxFolds == 2

\* the label column y of the dataset, by row
Label(row) == (row % 2) + 1

\* what a flow may return for a fold with one test row
FlowPredictions == {<<1>>, <<2>>}

\* the fold at [repeat][fold] of a split plan: one test row, the others train
PlanFold(r, f) ==
    LET t == (r + f) % NumRows
    IN  [trainset |-> SelectSeq([i \in 1..NumRows |-> i - 1], LAMBDA row : row # t),
         testset |-> <<t>>]

\* the estimation procedures a task may hold: up to MaxRepeats repeats of up
\* to MaxFolds folds each (CrossValidation::from leaves a repeat no record
\* names with no fold)
Plans ==
    UNION {{[r \in 1..nr |-> [f \in 1..shape[r] |-> PlanFold(r, f)]] :
                shape \in [1..nr -> 0..MaxFolds]} : nr \in 0..MaxRepeats}

\* flat_map that keeps the inner position when it moves to the next repeat
RECURSIVE IterSeekNoReset(_, _, _)
IterSeekNoReset(vec, r, f) ==
    IF r > Len(vec) THEN <<r, 1>>
    ELSE IF f > Len(vec[r]) THEN IterSeekNoReset(vec, r + 1, f)
    ELSE <<r, f>>

\* Procedure::iter: xv.folds.iter().flat_map(|inner| inner.iter()), the fold
\* at or after [r][f] of vec; <<Len(vec) + 1, 1>> when the iterator is exhausted
RECURSIVE IterSeek(_, _, _)
IterSeek(vec, r, f) ==
    IF r > Len(vec) THEN <<r, 1>>
    ELSE IF f > Len(vec[r]) THEN IterSeek(vec, r + 1, 1)
    ELSE <<r, f>>

Exhausted(c) == c[1] > Len(xv)

Event(op, c, known, predicted) ==
    [op |-> op, repeat |-> c[1] - 1, fold |-> c[2] - 1, known |-> known, predicted |-> predicted]

\* y.clone_rows(&fold.testset).raw_data()
CloneLabels(rows) == [i \in 1..Len(rows) |-> Label(rows[i])]

\* perform up to the loop head: let mut measure = self.evaluation_measures.create()
PerformStart ==
    /\ pstep = "idle"
    /\ \E plan \in Plans :
         /\ xv' = plan
         /\ LET c == IterSeek(plan, 1, 1)
            IN  /\ cursor' = c
                /\ pstep' = IF c[1] > Len(plan) THEN "return" ELSE "flow"
    /\ measure' = {[n_correct |-> 0, n_wrong |-> 0]}
    /\ predictions' = <<>>
    /\ events' = <<Event("create", <<1, 1>>, <<>>, <<>>)>>
    /\ UNCHANGED <<cacheVars, taskVars, foldVars, accVars, uneven, rmseVars, urlVars>>

\* let predictions = flow(x_train, y_train, x_test)
PerformFlow ==
    /\ pstep = "flow"
    /\ \E out \in FlowPredictions :
         /\ predictions' = out
         /\ events' = Append(events, Event("flow", cursor, <<>>, out))
    /\ pstep' = "update"
    /\ UNCHANGED <<xv, cursor, measure>>
    /\ UNCHANGED <<cacheVars, taskVars, foldVars, accVars, uneven, rmseVars, urlVars>>

\* measure.update(y_test.raw_data(), &predictions), and the loop's next turn
PerformUpdate ==
    /\ pstep = "update"
    /\ LET known == CloneLabels(xv[cursor[1]][cursor[2]].testset)
           c == IterSeek(xv, cursor[1], cursor[2] + 1)
       IN  /\ measure' = {AccuracyLoop(m, known, predictions) : m \in measure}
           /\ events' = Append(events, Event("update", cursor, known, predictions))
           /\ cursor' = c
           /\ pstep' = IF Exhausted(c) THEN "return" ELSE "flow"
    /\ predictions' = <<>>
    /\ UNCHANGED xv
    /\ UNCHANGED <<cacheVars, taskVars, foldVars, accVars, uneven, rmseVars, urlVars>>

\* the loop is over: Box::new(measure) is returned
PerformReturn ==
    /\ pstep = "return"
    /\ pstep' = "returned"
    /\ events' = Append(events, Event("return", cursor, <<>>, <<>>))
    /\ UNCHANGED <<xv, cursor, predictions, measure>>
    /\ UNCHANGED <<cacheVars, taskVars, foldVars, accVars, uneven, rmseVars, urlVars>>

PerformNext == PerformStart \/ PerformFlow \/ PerformUpdate \/ PerformReturn

PerformSpec == QuietInit /\ [][PerformNext]_vars

\* ---------------------------------------------------- MeasureAccumulator
\* MeasureSpec: one accumulator, of either kind, taking updates

AccuracyFresh == n_updates = 0 /\ result = {}
RmseFresh == rmse_updates = 0 /\ rmse_result = {}

MeasureNext ==
    \/ RmseFresh /\ AccNext
    \/ AccuracyFresh /\ RmseNext

MeasureSpec == QuietInit /\ [][MeasureNext]_vars

\* ------------------------------------------------------------ url_to_file
\* UrlSpec: url_to_file applied to two URLs; a string is the sequence of its
\* characters

MaxUrlLen == 3

UrlChars == {"/", ":", "_", "a"}

Urls == SeqsUpTo(UrlChars, MaxUrlLen)

\* str::replace(from, to) for a one-character pattern; to is a string
RECURSIVE Replace(_, _, _)
Replace(s, from, to) ==
    IF s = <<>> THEN <<>>
    ELSE (IF Head(s) = from THEN to ELSE <<Head(s)>>) \o Replace(Tail(s), from, to)

\* both characters deleted
UrlToFileDropBoth(s) == Replace(Replace(s, "/", <<>>), ":", <<>>)

\* s.replace('/', "_").replace(':', "")
url_to_file(s) == Replace(Replace(s, "/", <<"_">>), ":", <<>>)

\* let filename = "cache/".to_owned() + &url_to_file(url), for the next URL
UrlToFileCall ==
    /\ Len(urls) < 2
    /\ \E url \in Urls :
         /\ urls' = Append(urls, url)
         /\ files' = Append(files, url_to_file(url))
    /\ UNCHANGED <<cacheVars, taskVars, foldVars, accVars, uneven, rmseVars, performVars>>

UrlNext == UrlToFileCall

UrlSpec == QuietInit /\ [][UrlNext]_vars

\* ---------------------------------------------------- get_cached, scheduled
\* FairSpec: the calls of Spec under fair scheduling. A process inside
\* get_cached keeps running: each of its steps is taken if it stays possible
\* (a blocking flock returns once the lock can be granted, a started download
\* returns). No fairness is asked of the failures of the lock calls, nor of
\* the start of a call.
Fairness ==
    \A p \in Procs :
        /\ WF_vars(Open(p))
        /\ WF_vars(LockShared(p))
        /\ WF_vars(Read(p))
        /\ WF_vars(Create(p))
        /\ WF_vars(LockExclusive(p))
        /\ WF_vars(Download(p))
        /\ WF_vars(Write(p))

FairSpec == Init /\ [][Next]_vars /\ Fairness

\* ------------------------------------------------------- claims: the cache

HistIx == 1..Len(hist)

\* the first get_cached call of every process has returned
FirstCallsReturned == \A p \in Procs : \E i \in HistIx : hist[i].proc = p /\ hist[i].call = 1

FirstResults == {hist[i] : i \in {j \in HistIx : hist[j].call = 1}}

\* no download failed and no lock, read or write call failed
NoFault == (\A f \in fetches : f.ok) /\ (\A i \in HistIx : hist[i].err # "Io")

\* C1: when every process calls get_cached for the URL whose cache file does not
\* exist yet, and the fetch and the file operations succeed, exactly one
\* download is made and every call returns Ok with the same content.
C1_OneFetchAllSucceed ==
    (dir = "ok" /\ FirstCallsReturned /\ NoFault) =>
        /\ Cardinality(fetches) = 1
        /\ \A r \in FirstResults : r.ok
        /\ \A r1, r2 \in FirstResults : r1.data = r2.data

\* C2: a call that returns through the read branch returns the complete
\* response body, never the empty or partly written file (no download, lock,
\* read or write having failed).
C2_ReadersSeeCompleteBody ==
    NoFault => \A i \in HistIx : (hist[i].via = "read" /\ hist[i].ok) => hist[i].data = Body

\* C3: download is called at most once for the URL, and only by the call whose
\* create_new succeeded.
C3_AtMostOneFetch ==
    /\ Cardinality(fetches) <= 1
    /\ Cardinality(creators) <= 1
    /\ \A f \in fetches : [proc |-> f.proc, call |-> f.call] \in creators

\* a download was made, and calls of two processes have returned after it
C3_Witness ==
    /\ Cardinality(fetches) = 1
    /\ Len(hist) = MaxCalls
    /\ \E i, j \in HistIx : hist[i].proc # hist[j].proc
    /\ \E i \in HistIx : hist[i].ok /\ hist[i].via = "read" /\ hist[i].data = Body

Fetched(r) == \E f \in fetches : f.proc = r.proc /\ f.call = r.call

\* C4 (SeqSpec): of two get_cached calls made one after the other, the second
\* makes no download; when the first returned Ok(d), the second goes through
\* the read branch and returns Ok(d) too, unless its lock or read call fails.
C4_SequentialIdempotent ==
    \A i, j \in HistIx : i < j =>
        /\ ~Fetched(hist[j])
        /\ hist[i].ok =>
              /\ hist[j].via = "read"
              /\ hist[j].ok => hist[j].data = hist[i].data
              /\ ~hist[j].ok => hist[j].err = "Io"

\* a first call downloaded and returned the body, a second call returned it too
C4_Witness ==
    /\ Len(hist) >= 2
    /\ hist[1].ok /\ hist[1].via = "write" /\ Fetched(hist[1])
    /\ hist[2].ok /\ hist[2].data = Body

\* ------------------------------------------------ claims: task resolution

\* the document decodes and has /task, task_id, task_name and an input array,
\* and its task_type_id is neither "1" nor "2"
UnsupportedTypeDoc ==
    \E d \in doc : d.defect = "none" /\ d.task_type_id \notin {{"1"}, {"2"}}

ListedFailures ==
    {"task document fetch", "malformed json", "no /task", "no task_id", "no task_name",
     "no input array", "no data_set_id", "dataset metadata fetch", "dataset metadata json",
     "no dataset url", "dataset file fetch", "dataset file arff", "no data_splits_url",
     "split file fetch", "split file arff"}

\* C6: every such failure ends the resolution with Err returned to the caller
\* and no Task.
C6_FailuresReturnErr ==
    (tstep = "done" /\ failure \in ListedFailures) => (outcome = "Err" /\ task = {})

\* the measure a block names
NamedMeasure(v) ==
    CASE v = {"predictive_accuracy"} -> {"PredictiveAccuracy"}
      [] v = {"root_mean_squared_error"} -> {"RootMeanSquaredError"}

\* C7: a classification task resolved from an input array with no
\* evaluation_measures block, or with one whose measure is the empty array, has
\* the measure PredictiveAccuracy; with one block naming a measure, that one.
C7_ClassificationMeasureDefault ==
    \A t \in task :
        (t.task_type = {"SupervisedClassification"} /\ Len(measure_blocks) <= 1) =>
            t.evaluation_measures =
                IF measure_blocks = <<>> \/ measure_blocks[1] = {"[]"}
                THEN {"PredictiveAccuracy"}
                ELSE NamedMeasure(measure_blocks[1])

\* a classification task was resolved whose evaluation_measures block is empty
C7_Witness ==
    /\ outcome = "Ok"
    /\ \E t \in task : t.task_type = {"SupervisedClassification"}
                        /\ t.evaluation_measures = {"PredictiveAccuracy"}
    /\ measure_blocks = <<{"[]"}>>

\* C8: the DataSet's target is the task's requested target if there is one,
\* otherwise the dataset's default target if there is one, otherwise None.
C8_TargetPrecedence ==
    \A ds \in source_data : \A t \in targets :
        ds.target = IF t.requested # {} THEN t.requested
                    ELSE IF t.default # {} THEN t.default
                    ELSE {}

\* default target "class", requested target "label": the task has target "label"
C8_Witness ==
    /\ outcome = "Ok"
    /\ targets = {[default |-> {"class"}, requested |-> {"label"}]}
    /\ \E t \in task : \E ds \in t.source_data : ds.target = {"label"}

\* --------------------------------------------------- claims: the fold index

Range(seq) == {seq[i] : i \in 1..Len(seq)}

AllFolds == UNION {Range(folds[r]) : r \in 1..Len(folds)}

\* trainset and testset share no row, and every row is a row of the dataset
FoldsPartition ==
    \A f \in AllFolds :
        /\ Range(f.trainset) \cap Range(f.testset) = {}
        /\ \A row \in Range(f.trainset) \cup Range(f.testset) : row < NumRows

\* C9 as claimed: whatever the split records, every fold has disjoint trainset
\* and testset and only row indices below the dataset's row count.
C9_FoldPartitionAnyRecords == FoldsPartition

\* the records name only rows of the dataset, and none as both TRAIN and TEST
\* of one (repeat, fold)
RecordsPartition ==
    /\ \A i \in 1..Len(data) : data[i].rowid < NumRows
    /\ \A i, j \in 1..Len(data) :
          (data[i].repeat = data[j].repeat /\ data[i].fold = data[j].fold
              /\ data[i].rowid = data[j].rowid)
          => data[i].purpose = data[j].purpose

\* C9 as amended: when the split records name only rows of the dataset and no
\* row as both TRAIN and TEST of one (repeat, fold), every fold has disjoint
\* trainset and testset and only row indices below the row count.
C9_FoldPartitionOfPartitionRecords == RecordsPartition => FoldsPartition

\* such records were consumed, and a fold has both train and test rows
C9_Witness ==
    /\ Len(data) = MaxItems
    /\ RecordsPartition
    /\ \E f \in AllFolds : f.trainset # <<>> /\ f.testset # <<>>
    /\ \E i, j \in 1..Len(data) : data[i].rowid = data[j].rowid /\ data[i].fold # data[j].fold

\* ------------------------------------------------ claims: the accumulators

\* C10: after any update calls, n_correct is the number of paired values that
\* are equal and n_wrong the number that differ, over all calls; result() is
\* n_correct / (n_correct + n_wrong); update([1,2,3],[1,2,4]) gives 2/3.
C10_AccuracyCounts ==
    /\ n_correct = paired.correct
    /\ n_wrong = paired.wrong
    /\ \A r \in result : r = <<paired.correct, paired.correct + paired.wrong>>
    /\ example => (n_correct = 2 /\ n_wrong = 1 /\ \A r \in result : r = <<2, 3>>)

\* update([1,2,3],[1,2,4]) was the only update, and result() was read
C10_Witness ==
    /\ example
    /\ n_updates = 1
    /\ result = {<<2, 3>>}

\* C11: after any sequence of RootMeanSquaredError updates, sum_of_squares is
\* the sum of (known - predicted)^2 over all the pairs paired up so far and n
\* is the number of those pairs; result() is sqrt(sum_of_squares / n), here to
\* the thousandth; update([0,0],[3,4]) on a fresh accumulator leaves
\* sum_of_squares = 25 and n = 2.
C11_RmseSums ==
    /\ rmse.sum_of_squares = rmse_paired.sum
    /\ rmse.n = rmse_paired.pairs
    /\ \A r \in rmse_result :
          IF rmse_paired.pairs = 0
          THEN r.nan
          ELSE LET x == (rmse_paired.sum * 1000000) \div rmse_paired.pairs
               IN  ~r.nan /\ r.milli * r.milli <= x /\ x < (r.milli + 1) * (r.milli + 1)
    /\ rmse_example => (rmse.sum_of_squares = 25 /\ rmse.n = 2)

\* update([0,0],[3,4]) was made and result() read: sqrt(25 / 2) = 3.535...
C11_Witness ==
    /\ rmse_example
    /\ rmse_result = {[nan |-> FALSE, milli |-> 3535]}

\* ------------------------------------------------------ claims: perform

\* the folds of the plan before repeat r (1-based)
RECURSIVE FoldsBefore(_)
FoldsBefore(r) == IF r = 1 THEN 0 ELSE Len(xv[r - 1]) + FoldsBefore(r - 1)

NumFolds == FoldsBefore(Len(xv) + 1)

\* the k-th fold in row-major order, as 0-based <<repeat, fold>>
RowMajor(k) ==
    CHOOSE c \in {<<r - 1, f - 1>> : r \in 1..Len(xv), f \in 1..MaxFolds + 1} :
        /\ c[2] < Len(xv[c[1] + 1])
        /\ FoldsBefore(c[1] + 1) + c[2] + 1 = k

\* the accumulator after the updates logged so far
RECURSIVE Accumulated(_)
Accumulated(i) ==
    IF i = 0 THEN [n_correct |-> 0, n_wrong |-> 0]
    ELSE IF events[i].op = "update"
         THEN AccuracyLoop(Accumulated(i - 1), events[i].known, events[i].predicted)
         ELSE Accumulated(i - 1)

\* C12: perform creates one accumulator, then visits every fold exactly once
\* in row-major order (the folds of repeat 0 ascending, then those of repeat
\* 1, ...); for each fold it calls the flow once and then updates the
\* accumulator once with that fold's test labels and the flow's predictions;
\* the accumulator is returned only after the last fold's update.
C12_PerformOrder ==
    /\ \A i \in 1..Len(events) :
          LET e == events[i]
              k == i \div 2
          IN  /\ i = 1 => e.op = "create"
              /\ (1 < i /\ i <= 2 * NumFolds + 1) =>
                    /\ <<e.repeat, e.fold>> = RowMajor(k)
                    /\ e.op = IF i % 2 = 0 THEN "flow" ELSE "update"
                    /\ e.op = "update" =>
                          /\ e.known = CloneLabels(xv[e.repeat + 1][e.fold + 1].testset)
                          /\ e.predicted = events[i - 1].predicted
              /\ i = 2 * NumFolds + 2 => e.op = "return"
    /\ Len(events) <= 2 * NumFolds + 2
    /\ pstep = "returned" => Len(events) = 2 * NumFolds + 2
    /\ Cardinality(measure) <= 1
    /\ \A m \in measure : m = Accumulated(Len(events))

\* a perform over two repeats of two folds has returned
C12_Witness ==
    /\ pstep = "returned"
    /\ Len(xv) = 2 /\ Len(xv[1]) = 2 /\ Len(xv[2]) = 2
    /\ Len(events) = 10

\* ------------------------------------------- claims: the cache's failures

\* C13: a call whose open-for-read found the file absent and whose exclusive
\* create then fails because another process has created the file in the
\* meantime does not return that failure: no call returns the error of kind
\* AlreadyExists (it retries from the open-for-read instead).
C13_LostCreateRaceRetries ==
    \A i \in HistIx : hist[i].err # "AlreadyExists"

\* no get_cached call is in progress
Quiescent == \A p \in Procs : pc[p] = "idle"

\* C14: whichever way a get_cached call that took a lock returns (read done,
\* read failed, write done, download failed, write failed), the lock is
\* released by the return: a process outside get_cached holds no lock, and when
\* no call is in progress the cache file is not locked.
C14_NoLockOutsideCall ==
    /\ \A p \in Procs : pc[p] = "idle" => (p \notin shared /\ p \notin excl)
    /\ Quiescent => (shared = {} /\ excl = {})

\* three calls have returned and none is in progress: one after a failed
\* download, one after a read, one after a failed lock or read
C14_Witness ==
    /\ Quiescent
    /\ \E i, j, k \in HistIx :
          /\ hist[i].err = "Hyper"
          /\ hist[j].ok /\ hist[j].via = "read"
          /\ hist[k].err = "Io" /\ hist[k].via = "read"

\* a download has failed and the call that made it has returned
FetchFailed == \E i \in HistIx : hist[i].err = "Hyper"

\* C15: a call whose download fails after it created the file returns the
\* error; from then on the file stays on disk, empty, and is never written
\* again; no later call downloads; a call started later goes through the read
\* branch and returns Ok with the empty content, unless its own lock or read
\* call fails.
C15_FailedFetchLeavesEmptyFile ==
    /\ \A f \in fetches : ~f.ok =>
          \E i \in HistIx : hist[i].proc = f.proc /\ hist[i].call = f.call
                             /\ hist[i].err = "Hyper"
    /\ FetchFailed =>
          /\ exists /\ content = <<>>
          /\ Cardinality(fetches) = 1
          /\ \A p \in Procs : pc[p] \notin {"lock_excl", "download", "write"}
    /\ \A i \in HistIx :
          [proc |-> hist[i].proc, call |-> hist[i].call] \in late =>
              /\ hist[i].via = "read"
              /\ ~Fetched(hist[i])
              /\ hist[i].ok => hist[i].data = <<>>
              /\ ~hist[i].ok => hist[i].err = "Io"

\* after a failed download, a later call has returned Ok with the empty content
C15_Witness ==
    /\ FetchFailed
    /\ \E i \in HistIx :
          /\ [proc |-> hist[i].proc, call |-> hist[i].call] \in late
          /\ hist[i].ok /\ hist[i].data = <<>> /\ hist[i].via = "read"

\* C16: a get_cached call made when the cache/ directory does not exist
\* creates the directory and goes on to the download: no call fails with the
\* kind NotFound of the missing directory.
C16_MissingDirCreated ==
    \A i \in HistIx : hist[i].err # "NotFound"

\* -------------------------------------------- claims: fold construction

MaxOf(S) == CHOOSE x \in S : \A y \in S : y <= x

\* the records that name repeat r, and those that name fold f of it (0-based)
RepeatsSeen == {data[i].repeat : i \in 1..Len(data)}
FoldsSeen(r) == {data[i].fold : i \in {j \in 1..Len(data) : data[j].repeat = r}}

\* the row ids of the records of one purpose that name [r][f], in input order
RowsOf(purpose, r, f) ==
    LET named == SelectSeq(data, LAMBDA item :
                    item.purpose = purpose /\ item.repeat = r /\ item.fold = f)
    IN  [i \in 1..Len(named) |-> named[i].rowid]

\* C17: after any sequence of split records, the result has (max repeat seen
\* + 1) repeats (none when there was no record); a repeat some record names
\* has (max fold seen among its records + 1) folds, a repeat no record names
\* has none; the trainset (testset) of fold [r][f] is the row ids of the TRAIN
\* (TEST) records naming [r][f], in input order, so a position no record names
\* is an empty fold.
C17_FoldIndexShape ==
    /\ Len(folds) = IF data = <<>> THEN 0 ELSE MaxOf(RepeatsSeen) + 1
    /\ \A r \in 1..Len(folds) :
          /\ Len(folds[r]) = IF FoldsSeen(r - 1) = {} THEN 0 ELSE MaxOf(FoldsSeen(r - 1)) + 1
          /\ \A f \in 1..Len(folds[r]) :
                /\ folds[r][f].trainset = RowsOf("TRAIN", r - 1, f - 1)
                /\ folds[r][f].testset = RowsOf("TEST", r - 1, f - 1)

\* three records, all naming [1][1]: repeat 0 has no fold, fold [1][0] is
\* empty, and two distinct train rows were appended to [1][1] in input order
C17_Witness ==
    /\ Len(data) = 3
    /\ Len(folds) = 2 /\ folds[1] = <<>>
    /\ Len(folds[2]) = 2 /\ folds[2][1] = NewFold
    /\ folds[2][2].trainset = <<1, 0>>
    /\ folds[2][2].testset = <<2>>

\* ------------------------------------- claims: slices of different length

\* C18: an update of either accumulator given slices of different length
\* counts exactly min(known.len(), predicted.len()) pairs, the first ones:
\* after it, the counters of Accuracy are those of the index-aligned pairs and
\* their sum is the number of these pairs, and n and sum_of_squares of
\* RootMeanSquaredError are the number and the sum of these pairs; the surplus
\* values have changed no field.
C18_ZipTruncates ==
    uneven =>
        /\ n_correct + n_wrong = paired.correct + paired.wrong
        /\ n_correct = paired.correct
        /\ rmse.n = rmse_paired.pairs
        /\ rmse.sum_of_squares = rmse_paired.sum

\* a first update of RootMeanSquaredError with slices of different length
\* counted one pair, of difference 3
C18_Witness ==
    /\ uneven
    /\ rmse_updates = 1
    /\ rmse = [sum_of_squares |-> 9, n |-> 1]

\* --------------------------------------------- claims: regression measure

\* the input array read had no evaluation_measures block, or the block (the
\* last one read, were there several) holds the empty array
NoMeasureNamed ==
    \/ measure_blocks = <<>>
    \/ measure_blocks[Len(measure_blocks)] = {"[]"}

\* C19: the resolution of a regression task whose input has no
\* evaluation_measures block, or whose block names no measure, fails: no task
\* is built, and no default measure is put in the place of the missing one.
C19_RegressionNeedsMeasure ==
    /\ (tstep = "done" /\ task_type = {"SupervisedRegression"} /\ NoMeasureNamed) =>
          /\ outcome # "Ok"
          /\ task = {}
          /\ evaluation_measures = {}
    /\ \A t \in task : t.task_type = {"SupervisedRegression"} => t.evaluation_measures # {}

\* a regression task with its data set and procedure in place and an empty
\* evaluation_measures block failed for want of a measure
C19_Witness ==
    /\ tstep = "done"
    /\ task_type = {"SupervisedRegression"}
    /\ measure_blocks = <<{"[]"}>>
    /\ source_data # {} /\ estimation_procedure # {}
    /\ outcome = "Panic" /\ failure = "no evaluation_measures"

\* ------------------------------------------------------ claims: file names

\* C20, as stated: url_to_file maps any two distinct URLs over an alphabet
\* with '/', ':', '_' and ordinary characters to distinct file names.
C20_UrlToFileInjective ==
    (Len(urls) = 2 /\ urls[1] # urls[2]) => files[1] # files[2]

\* the URL has no '_' and no ':'
Plain(url) == \A i \in 1..Len(url) : url[i] \notin {"_", ":"}

\* C20: url_to_file gives one URL one file name, and it maps two distinct URLs
\* that contain neither '_' nor ':' to distinct file names; when two distinct
\* URLs get the same name, one of them has a '_' or a ':'.
C20_UrlToFileInjectiveOnPlain ==
    Len(urls) = 2 =>
        /\ urls[1] = urls[2] => files[1] = files[2]
        /\ (urls[1] # urls[2] /\ Plain(urls[1]) /\ Plain(urls[2])) => files[1] # files[2]

\* "a/" and "/a" were mapped to "a_" and "_a"
C20_Witness ==
    /\ urls = <<<<"a", "/">>, <<"/", "a">>>>
    /\ files = <<<<"a", "_">>, <<"_", "a">>>>

\* ------------------------------------------------- claims: termination

\* C21: under fair scheduling, with every started download returning, every
\* get_cached call of every process eventually returns a value or an error:
\* a process that is inside get_cached is eventually outside of it again.
C21_EveryCallReturns ==
    \A p \in Procs : (pc[p] # "idle") ~> (pc[p] = "idle")

====
